---- MODULE Spec2Model ----
(***************************************************************************)
(* Model of oatpp::web::client::HttpRequestExecutor                        *)
(* (src/src/oatpp/web/client/HttpRequestExecutor.cpp): the connection      *)
(* handle life cycle, the blocking executor executeOnce and the coroutine  *)
(* executor executeOnceAsync.                                              *)
(*                                                                         *)
(* Strings are tuples of one-character strings so that the case-           *)
(* insensitive comparisons of the header map are computed, not assumed.    *)
(***************************************************************************)
EXTENDS Integers, Sequences, FiniteSets, TLC

(* ------------------------------------------------------------------ *)
(* Bounds                                                              *)
(* ------------------------------------------------------------------ *)

\* Total number of executeOnce / executeOnceAsync invocations in a run.
MaxCalls == 2

\* Upper end of the read-ahead buffer offsets the header reader reports.
MaxBufPos == 1

\* Number of bytes a caller reads from the body stream of one response.
MaxBodyReads == 2

(* ------------------------------------------------------------------ *)
(* Universe                                                            *)
(* ------------------------------------------------------------------ *)

\* Invocation slots (a caller thread / a scheduled coroutine).
Tasks == {"t1", "t2"}

\* Connection handles the provider can hand out.
Handles == {"h1", "h2"}

\* A null std::shared_ptr<ConnectionHandle>.
NoHandle == "nullptr"

\* Absent header value (a StringKeyLabelCI whose data pointer is null).
Absent == <<"null">>

S_Host == <<"H", "o", "s", "t">>
S_host == <<"h", "o", "s", "t">>
S_Connection == <<"C", "o", "n", "n", "e", "c", "t", "i", "o", "n">>
S_connection == <<"c", "o", "n", "n", "e", "c", "t", "i", "o", "n">>
S_keep_alive == <<"k", "e", "e", "p", "-", "a", "l", "i", "v", "e">>
S_close == <<"c", "l", "o", "s", "e">>
S_Close == <<"C", "l", "o", "s", "e">>
S_CLOSE == <<"C", "L", "O", "S", "E">>
S_closed == <<"c", "l", "o", "s", "e", "d">>
S_example == <<"e", "x">>
S_provider == <<"p", "v">>

(* ------------------------------------------------------------------ *)
(* Case-insensitive strings (StringKeyLabelCI)                         *)
(* ------------------------------------------------------------------ *)

UpperLower ==
  { <<"C", "c">>, <<"H", "h">>, <<"L", "l">>, <<"O", "o">>,
    <<"S", "s">>, <<"E", "e">> }

LowerChar(c) ==
  IF \E p \in UpperLower : p[1] = c
    THEN (CHOOSE p \in UpperLower : p[1] = c)[2]
    ELSE c

equalsCI(a, b) ==
  /\ Len(a) = Len(b)
  /\ \A i \in 1..Len(a) : LowerChar(a[i]) = LowerChar(b[i])

\* Header maps are sequences of <<key, value>> pairs.
hasKey(headers, key) ==
  \E i \in 1..Len(headers) : equalsCI(headers[i][1], key)

getAsMemoryLabel(headers, key) ==
  IF hasKey(headers, key)
    THEN headers[CHOOSE i \in 1..Len(headers) : equalsCI(headers[i][1], key)][2]
    ELSE Absent

\* StringKeyLabelCI::operator==(const char*): a null label equals no string.
labelEqualsCI(label, str) ==
  /\ label # Absent
  /\ equalsCI(label, str)

putHeaderIfNotExists_Unsafe(headers, key, value) ==
  IF hasKey(headers, key) THEN headers ELSE Append(headers, <<key, value>>)

countKey(headers, key) ==
  Cardinality({ i \in 1..Len(headers) : equalsCI(headers[i][1], key) })

(* ------------------------------------------------------------------ *)
(* State                                                               *)
(* ------------------------------------------------------------------ *)

VARIABLES
  handle,    \* handle[h]: the HttpConnectionHandle object of slot h
  provider,  \* provider[h]: calls of m_connectionProvider->invalidate made through h
  task,      \* task[t]: one invocation of executeOnce / executeOnceAsync
  calls,     \* number of invocations started so far
  script     \* peer / I/O outcomes fixed in advance (paired runs only)

vars == <<handle, provider, task, calls, script>>

\* A handle slot before getConnection / getConnectionAsync ran for it.
NoHandleObject ==
  [ state |-> "none", acqError |-> "none", connection |-> FALSE,
    valid |-> FALSE, invalidateOnDestroy |-> FALSE, ioMode |-> "none" ]

\* HttpConnectionHandle::HttpConnectionHandle; connection = FALSE is a null stream.
HttpConnectionHandle(stream) ==
  [ state |-> "alive", acqError |-> "none", connection |-> stream,
    valid |-> TRUE, invalidateOnDestroy |-> FALSE, ioMode |-> "none" ]

\* The pair (handles, provider) that the handle operations read and write.
World(hs, pv) == [ handle |-> hs, provider |-> pv ]

\* HttpConnectionHandle::getConnection
getConnection(hs, h) == hs[h].connection

\* invalidate without the m_valid guard: the provider is notified on every call.
invalidateUnguarded(w, h) ==
  [ handle |-> [w.handle EXCEPT ![h].valid = FALSE],
    provider |-> [w.provider EXCEPT ![h] = @ + 1] ]

\* HttpConnectionHandle::invalidate
invalidate(w, h) ==
  IF w.handle[h].valid
    THEN [ handle |-> [w.handle EXCEPT ![h].valid = FALSE],
           provider |-> [w.provider EXCEPT ![h] = @ + 1] ]
    ELSE w

\* The flag kept once for all handles instead of once per handle.
setInvalidateOnDestroyShared(w, h, flag) ==
  [ w EXCEPT !.handle = [g \in Handles |-> [@[g] EXCEPT !.invalidateOnDestroy = flag]] ]

\* HttpConnectionHandle::setInvalidateOnDestroy
setInvalidateOnDestroy(w, h, flag) ==
  [ w EXCEPT !.handle[h].invalidateOnDestroy = flag ]

\* HttpConnectionHandle::~HttpConnectionHandle
destroyHandle(w, h) ==
  LET w1 == IF w.handle[h].invalidateOnDestroy THEN invalidate(w, h) ELSE w
  IN  [ w1 EXCEPT !.handle[h].state = "destroyed" ]

\* HttpRequestExecutor::invalidateConnection
invalidateConnection(w, connectionHandle) ==
  IF connectionHandle # NoHandle THEN invalidate(w, connectionHandle) ELSE w

\* connection->setInputStreamIOMode / setOutputStreamIOMode
setIOMode(w, h, mode) == [ w EXCEPT !.handle[h].ioMode = mode ]

Commit(w) ==
  /\ handle' = w.handle
  /\ provider' = w.provider

Now == World(handle, provider)

(* ------------------------------------------------------------------ *)
(* Inputs: caller headers, stream outcomes, header reader results      *)
(* ------------------------------------------------------------------ *)

\* Header maps a caller passes to executeOnce / executeOnceAsync.
CallerHeaderSets ==
  { <<>>,
    << <<S_Host, S_example>> >>,
    << <<S_connection, S_close>> >>,
    << <<S_host, S_example>>, <<S_Connection, S_close>> >> }

\* m_connectionProvider->getProperty("host")
ProviderHost == S_provider

\* Outcome of a write (send of the serialized request, flush of the proxy).
IOResults == {"ok", "error"}

\* What a failing blocking write does in executeOnce: the stream reports a
\* status that lines 163-164 do not look at, or an exception leaves the call.
SyncFailureModes == {"status_discarded", "exception"}

\* Header maps a peer can answer with.
ResponseHeaderSets ==
  { <<>>,
    << <<S_Connection, S_close>> >>,
    << <<S_connection, S_CLOSE>> >>,
    << <<S_Connection, S_keep_alive>> >>,
    << <<S_Connection, S_closed>> >> }

\* First buffer offset after the header section of a parsed response.
HeaderSectionEnd == 1

\* ResponseHeadersReader::Result together with HttpError::Info.
ParsedResults ==
  { [ errorStatusCode |-> 0, ioStatus |-> 1, statusCode |-> 200,
      description |-> "OK", headers |-> hs,
      bufferPosStart |-> HeaderSectionEnd, bufferPosEnd |-> e ] :
      hs \in ResponseHeaderSets, e \in HeaderSectionEnd..(HeaderSectionEnd + MaxBufPos) }

EmptyResult(code, io) ==
  [ errorStatusCode |-> code, ioStatus |-> io, statusCode |-> 0,
    description |-> "", headers |-> <<>>,
    bufferPosStart |-> 0, bufferPosEnd |-> 0 ]

\* Malformed header section: the parser sets error.status.
MalformedResult == EmptyResult(400, 1)

\* The read failed: negative ioStatus (peer reset, peer closed, broken pipe).
IOErrorResult == EmptyResult(0, -1)

\* The read ended with status 0 and nothing was parsed.
ZeroReadResult == EmptyResult(0, 0)

HeaderResults == ParsedResults \cup {MalformedResult, IOErrorResult, ZeroReadResult}

NoResult == [ none |-> TRUE ]
NoResponse == [ none |-> TRUE ]

\* What readHeadersAsync does with a read outcome: call back with the result
\* or raise an error in the coroutine.
AsyncReadEvents(r) ==
  IF r \in ParsedResults THEN {"result"}
  ELSE IF r = ZeroReadResult THEN {"result", "error"}
  ELSE {"error"}

\* The error object the asynchronous header reader raises.
AsyncReaderError(r) ==
  IF r.errorStatusCode # 0 THEN "HEADERS_READER_PARSE_ERROR" ELSE "HEADERS_READER_IO_ERROR"

\* The error object a failing sendAsync / flushAsync raises, and the
\* exception a failing blocking write throws.
StreamError == "STREAM_IO_ERROR"

ERROR_CODE_CANT_CONNECT == "CANT_CONNECT"
ERROR_CODE_CANT_PARSE_STARTING_LINE == "CANT_PARSE_STARTING_LINE"

(* ------------------------------------------------------------------ *)
(* Invocations                                                         *)
(* ------------------------------------------------------------------ *)

IdleTask ==
  [ mode |-> "none", pc |-> "idle", h |-> NoHandle,
    caller |-> <<>>, request |-> <<>>,
    failedStep |-> "none", result |-> NoResult,
    outcome |-> "none", error |-> "none", response |-> NoResponse,
    nSend |-> 0, nFlush |-> 0, nRead |-> 0, nFrame |-> 0,
    nResponse |-> 0, nFailure |-> 0,
    body |-> <<>>, connReads |-> 0,
    unflushed |-> FALSE ]

Running(t) == task[t].pc \notin {"idle", "done"}

\* The handle argument of an invocation: null, or a live handle that no
\* exchange in flight is using.
Usable(h) ==
  \/ h = NoHandle
  \/ /\ h \in Handles
     /\ handle[h].state = "alive"
     /\ \A u \in Tasks : Running(u) => task[u].h # h

\* The body stream made with canRead = FALSE whatever the buffer holds.
InputStreamBufferedProxyNoCarry(result) ==
  [ bufferPosStart |-> result.bufferPosStart,
    bufferPosEnd |-> result.bufferPosEnd,
    bufferCanRead |-> FALSE,
    connectionPos |-> result.bufferPosEnd ]

\* InputStreamBufferedProxy::createShared(connection, buffer, start, end, canRead).
\* Bytes are named by their offset in the peer's byte stream: the header
\* reader put byte i at buffer offset i, and the connection's next unread
\* byte is the one after the buffer's end.
InputStreamBufferedProxy(result) ==
  [ bufferPosStart |-> result.bufferPosStart,
    bufferPosEnd |-> result.bufferPosEnd,
    bufferCanRead |-> result.bufferPosStart # result.bufferPosEnd,
    connectionPos |-> result.bufferPosEnd ]

\* InputStreamBufferedProxy::read of one byte: from the buffer region while
\* it can be read, from the connection afterwards.
readByte(bs) ==
  IF bs.bufferCanRead
    THEN [ byte |-> bs.bufferPosStart, fromConnection |-> FALSE,
           stream |-> [bs EXCEPT !.bufferPosStart = @ + 1,
                                 !.bufferCanRead = (bs.bufferPosStart + 1 # bs.bufferPosEnd)] ]
    ELSE [ byte |-> bs.connectionPos, fromConnection |-> TRUE,
           stream |-> [bs EXCEPT !.connectionPos = @ + 1] ]

\* Response::createShared(statusCode, description, headers, bodyStream, decoder)
Response(result, bodyStream) ==
  [ statusCode |-> result.statusCode, description |-> result.description,
    headers |-> result.headers, bodyStream |-> bodyStream ]

\* The invocation ends by throwing / raising error kind e.
Fail(tr, step, e) ==
  [ tr EXCEPT !.pc = "done", !.outcome = "failure", !.error = e,
              !.failedStep = IF @ = "none" THEN step ELSE @,
              !.nFailure = @ + 1, !.request = <<>>, !.caller = <<>>,
              !.unflushed = FALSE ]

\* The invocation ends by returning / yielding response r.
Return(tr, r) ==
  [ tr EXCEPT !.pc = "done", !.outcome = "response", !.response = r,
              !.nResponse = @ + 1, !.request = <<>>, !.caller = <<>>,
              !.unflushed = FALSE ]

(* ------------------------------------------------------------------ *)
(* Connection acquisition and the handle's public operations           *)
(* ------------------------------------------------------------------ *)

\* HttpRequestExecutor::getConnection; connection = FALSE: the provider gave none.
GetConnection(h, connection) ==
  /\ handle[h].state = "none"
  /\ handle' = [handle EXCEPT ![h] =
        IF ~connection
          THEN [NoHandleObject EXCEPT !.state = "failed",
                                      !.acqError = ERROR_CODE_CANT_CONNECT]
          ELSE HttpConnectionHandle(connection)]
  /\ UNCHANGED <<provider, task, calls, script>>

\* HttpRequestExecutor::getConnectionAsync (GetConnectionCoroutine): getAsync
\* either raises an error or calls onConnectionReady with its connection.
GetConnectionAsync(h, ev, connection) ==
  /\ handle[h].state = "none"
  /\ handle' = [handle EXCEPT ![h] =
        IF ev = "error"
          THEN [NoHandleObject EXCEPT !.state = "failed",
                                      !.acqError = "PROVIDER_ERROR"]
          ELSE HttpConnectionHandle(connection)]
  /\ UNCHANGED <<provider, task, calls, script>>

\* A caller invokes HttpConnectionHandle::invalidate on a handle it holds.
Invalidate(h) ==
  /\ handle[h].state = "alive"
  /\ Commit(invalidate(Now, h))
  /\ UNCHANGED <<task, calls, script>>

\* The orchestration layer calls HttpRequestExecutor::invalidateConnection.
InvalidateConnection(h) ==
  /\ h \in Handles => handle[h].state = "alive"
  /\ Commit(invalidateConnection(Now, h))
  /\ UNCHANGED <<task, calls, script>>

\* The last reference to the handle is dropped; an invocation in flight
\* holds a reference, so none is running on it.
Destroy(h) ==
  /\ handle[h].state = "alive"
  /\ \A t \in Tasks : Running(t) => task[t].h # h
  /\ Commit(destroyHandle(Now, h))
  /\ UNCHANGED <<task, calls, script>>

\* The caller takes the outcome of a finished invocation; the slot is free again.
Consume(t) ==
  /\ task[t].pc = "done"
  /\ task' = [task EXCEPT ![t] = IdleTask]
  /\ UNCHANGED <<handle, provider, calls, script>>

\* The caller reads one byte of the body of the response it was given.
ReadBody(t) ==
  /\ task[t].pc = "done" /\ task[t].outcome = "response"
  /\ Len(task[t].body) < MaxBodyReads
  /\ LET rd == readByte(task[t].response.bodyStream)
     IN  task' = [task EXCEPT ![t].response.bodyStream = rd.stream,
                              ![t].body = Append(@, rd.byte),
                              ![t].connReads = IF rd.fromConnection THEN @ + 1 ELSE @]
  /\ UNCHANGED <<handle, provider, calls, script>>

(* ------------------------------------------------------------------ *)
(* executeOnce (blocking)                                              *)
(* ------------------------------------------------------------------ *)

\* Request::putHeader: sets the value whether or not the key exists.
putHeader(headers, key, value) ==
  IF hasKey(headers, key)
    THEN [ i \in 1..Len(headers) |->
             IF equalsCI(headers[i][1], key) THEN <<headers[i][1], value>> ELSE headers[i] ]
    ELSE Append(headers, <<key, value>>)

\* Lines 156-158: the outgoing request's header map.
BuildRequestSync(headers) ==
  putHeaderIfNotExists_Unsafe(
    putHeaderIfNotExists_Unsafe(headers, S_Host, ProviderHost),
    S_Connection, S_keep_alive)

\* Lines 142-160: obtain the connection, set blocking mode, build the request.
ExecuteOnce_Begin(t, h, headers) ==
  /\ task[t].pc = "idle"
  /\ calls < MaxCalls
  /\ Usable(h)
  /\ calls' = calls + 1
  /\ LET connection == IF h # NoHandle THEN getConnection(handle, h) ELSE FALSE
         tr == [IdleTask EXCEPT !.mode = "sync", !.h = h, !.caller = headers]
     IN  IF ~connection
           THEN /\ task' = [task EXCEPT ![t] = Fail(tr, "connect", ERROR_CODE_CANT_CONNECT)]
                /\ UNCHANGED <<handle, provider>>
           ELSE /\ task' = [task EXCEPT ![t] =
                      [tr EXCEPT !.pc = "sending", !.request = BuildRequestSync(headers)]]
                /\ Commit(setIOMode(Now, h, "BLOCKING"))
  /\ UNCHANGED script

\* Line 163: request->send(&upStream). The serialized request goes into the
\* buffer of the buffered output proxy.
ExecuteOnce_Send(t, r, m) ==
  /\ task[t].mode = "sync" /\ task[t].pc = "sending"
  /\ task' = [task EXCEPT ![t] =
        IF r = "ok" THEN [@ EXCEPT !.pc = "flushing", !.nSend = @ + 1, !.unflushed = TRUE]
        ELSE IF m = "exception" THEN Fail(@, "send", StreamError)
        ELSE [@ EXCEPT !.pc = "flushing", !.nSend = @ + 1, !.failedStep = "send",
                       !.unflushed = TRUE]]
  /\ UNCHANGED <<handle, provider, calls, script>>

\* Line 164: upStream.flush().
ExecuteOnce_Flush(t, r, m) ==
  /\ task[t].mode = "sync" /\ task[t].pc = "flushing"
  /\ task' = [task EXCEPT ![t] =
        IF r = "ok" THEN [@ EXCEPT !.pc = "reading", !.nFlush = @ + 1, !.unflushed = FALSE]
        ELSE IF m = "exception" THEN Fail(@, "flush", StreamError)
        ELSE [@ EXCEPT !.pc = "reading", !.nFlush = @ + 1,
                       !.failedStep = IF @ = "none" THEN "flush" ELSE @]]
  /\ UNCHANGED <<handle, provider, calls, script>>

\* The handle is marked whenever the response carries a Connection header.
FrameSyncAnyValue(w, h, result) ==
  LET connectionHeader == getAsMemoryLabel(result.headers, S_Connection)
  IN  IF connectionHeader # Absent
        THEN setInvalidateOnDestroy(w, h, TRUE)
        ELSE w

\* Lines 182-195: the Connection header check and the response.
FrameSync(w, h, result) ==
  LET connectionHeader == getAsMemoryLabel(result.headers, S_Connection)
  IN  IF labelEqualsCI(connectionHeader, S_close)
        THEN setInvalidateOnDestroy(w, h, TRUE)
        ELSE w

\* executeOnce without the ioStatus check of lines 176-180.
ExecuteOnce_ReadHeadersNoIOCheck(t, result) ==
  /\ task[t].mode = "sync" /\ task[t].pc = "reading"
  /\ LET h == task[t].h
         tr == [task[t] EXCEPT !.nRead = @ + 1, !.result = result]
     IN  IF result.errorStatusCode # 0
           THEN /\ Commit(invalidate(Now, h))
                /\ task' = [task EXCEPT ![t] =
                     Fail(tr, "parse", ERROR_CODE_CANT_PARSE_STARTING_LINE)]
         ELSE /\ Commit(FrameSync(Now, h, result))
              /\ task' = [task EXCEPT ![t] =
                   Return([tr EXCEPT !.nFrame = @ + 1],
                          Response(result, InputStreamBufferedProxy(result)))]
  /\ UNCHANGED <<calls, script>>

\* Lines 166-195: read the headers, classify, frame.
ExecuteOnce_ReadHeaders(t, result) ==
  /\ task[t].mode = "sync" /\ task[t].pc = "reading"
  /\ LET h == task[t].h
         tr == [task[t] EXCEPT !.nRead = @ + 1, !.result = result]
     IN  IF result.errorStatusCode # 0
           THEN /\ Commit(invalidate(Now, h))
                /\ task' = [task EXCEPT ![t] =
                     Fail(tr, "parse", ERROR_CODE_CANT_PARSE_STARTING_LINE)]
         ELSE IF result.ioStatus < 0
           THEN /\ Commit(invalidate(Now, h))
                /\ task' = [task EXCEPT ![t] =
                     Fail(tr, "read", ERROR_CODE_CANT_PARSE_STARTING_LINE)]
         ELSE /\ Commit(FrameSync(Now, h, result))
              /\ task' = [task EXCEPT ![t] =
                   Return([tr EXCEPT !.nFrame = @ + 1],
                          Response(result, InputStreamBufferedProxy(result)))]
  /\ UNCHANGED <<calls, script>>

(* ------------------------------------------------------------------ *)
(* executeOnceAsync (ExecutorCoroutine)                                *)
(* ------------------------------------------------------------------ *)

\* The default headers written with putHeader instead of putHeaderIfNotExists_Unsafe.
BuildRequestAsyncOverwrite(headers) ==
  putHeader(putHeader(headers, S_Host, ProviderHost), S_Connection, S_keep_alive)

\* Lines 258-260: the outgoing request's header map.
BuildRequestAsync(headers) ==
  putHeaderIfNotExists_Unsafe(
    putHeaderIfNotExists_Unsafe(headers, S_Host, ProviderHost),
    S_Connection, S_keep_alive)

\* handleError that passes the error on and leaves the handle alone.
handleErrorNoInvalidate(w, connectionHandle) == w

\* ExecutorCoroutine::handleError: the state change; the error goes on unchanged.
handleError(w, connectionHandle) ==
  IF connectionHandle # NoHandle THEN invalidate(w, connectionHandle) ELSE w

\* The coroutine framework hands every error raised or thrown in a
\* coroutine's actions to that coroutine's handleError.
OnCoroutineError(w, connectionHandle) == handleError(w, connectionHandle)

\* ExecutorCoroutine::act, lines 244-264.
Async_act(t, h, headers) ==
  /\ task[t].pc = "idle"
  /\ calls < MaxCalls
  /\ Usable(h)
  /\ calls' = calls + 1
  /\ LET connection == IF h # NoHandle THEN getConnection(handle, h) ELSE FALSE
         tr == [IdleTask EXCEPT !.mode = "async", !.h = h, !.caller = headers]
     IN  IF ~connection
           THEN /\ task' = [task EXCEPT ![t] = Fail(tr, "connect", ERROR_CODE_CANT_CONNECT)]
                /\ Commit(OnCoroutineError(Now, h))
           ELSE /\ task' = [task EXCEPT ![t] =
                      [tr EXCEPT !.pc = "sending", !.request = BuildRequestAsync(headers)]]
                /\ Commit(setIOMode(Now, h, "ASYNCHRONOUS"))
  /\ UNCHANGED script

\* OutgoingRequest::sendAsync(request, m_upstream) finishes.
Async_sendDone(t, r) ==
  /\ task[t].mode = "async" /\ task[t].pc = "sending"
  /\ IF r = "ok"
       THEN /\ task' = [task EXCEPT ![t].pc = "flushing", ![t].nSend = @ + 1,
                                     ![t].unflushed = TRUE]
            /\ UNCHANGED <<handle, provider>>
       ELSE /\ task' = [task EXCEPT ![t] = Fail(@, "send", StreamError)]
            /\ Commit(OnCoroutineError(Now, task[t].h))
  /\ UNCHANGED <<calls, script>>

\* A failed flush sends the request again instead of failing.
Async_flushDoneRetry(t, r) ==
  /\ task[t].mode = "async" /\ task[t].pc = "flushing"
  /\ task' = [task EXCEPT ![t].pc = IF r = "ok" THEN "yielded" ELSE "sending",
                          ![t].nFlush = IF r = "ok" THEN @ + 1 ELSE @,
                          ![t].unflushed = IF r = "ok" THEN FALSE ELSE @]
  /\ UNCHANGED <<handle, provider, calls, script>>

\* m_upstream->flushAsync() finishes; on success the coroutine yields to readResponse.
Async_flushDone(t, r) ==
  /\ task[t].mode = "async" /\ task[t].pc = "flushing"
  /\ IF r = "ok"
       THEN /\ task' = [task EXCEPT ![t].pc = "yielded", ![t].nFlush = @ + 1,
                                     ![t].unflushed = FALSE]
            /\ UNCHANGED <<handle, provider>>
       ELSE /\ task' = [task EXCEPT ![t] = Fail(@, "flush", StreamError)]
            /\ Commit(OnCoroutineError(Now, task[t].h))
  /\ UNCHANGED <<calls, script>>

\* readResponse asks to be run again instead of starting the header read.
Async_readResponseRepeat(t) ==
  /\ task[t].mode = "async" /\ task[t].pc = "yielded"
  /\ UNCHANGED vars

\* ExecutorCoroutine::readResponse, lines 266-268: start readHeadersAsync.
Async_readResponse(t) ==
  /\ task[t].mode = "async" /\ task[t].pc = "yielded"
  /\ task' = [task EXCEPT ![t].pc = "reading"]
  /\ UNCHANGED <<handle, provider, calls, script>>

\* The Connection value compared byte for byte.
FrameAsyncCaseSensitive(w, h, result) ==
  LET connectionHeader == getAsMemoryLabel(result.headers, S_Connection)
  IN  IF connectionHeader = S_close
        THEN setInvalidateOnDestroy(w, h, TRUE)
        ELSE w

\* onHeadersParsed calling invalidate() where it should only mark the handle.
FrameAsyncInvalidates(w, h, result) ==
  LET connectionHeader == getAsMemoryLabel(result.headers, S_Connection)
  IN  IF labelEqualsCI(connectionHeader, S_close)
        THEN invalidate(w, h)
        ELSE w

\* Lines 272-285: the Connection header check and the response.
FrameAsync(w, h, result) ==
  LET connectionHeader == getAsMemoryLabel(result.headers, S_Connection)
  IN  IF labelEqualsCI(connectionHeader, S_close)
        THEN setInvalidateOnDestroy(w, h, TRUE)
        ELSE w

\* readHeadersAsync finishes: ExecutorCoroutine::onHeadersParsed (lines
\* 270-287) on a result, handleError (lines 289-297) on an error.
Async_headersDone(t, result, ev) ==
  /\ task[t].mode = "async" /\ task[t].pc = "reading"
  /\ ev \in AsyncReadEvents(result)
  /\ LET h == task[t].h
         tr == [task[t] EXCEPT !.nRead = @ + 1, !.result = result]
     IN  IF ev = "result"
           THEN /\ Commit(FrameAsync(Now, h, result))
                /\ task' = [task EXCEPT ![t] =
                     Return([tr EXCEPT !.nFrame = @ + 1],
                            Response(result, InputStreamBufferedProxy(result)))]
           ELSE /\ Commit(OnCoroutineError(Now, h))
                /\ task' = [task EXCEPT ![t] =
                     Fail(tr, IF result.errorStatusCode # 0 THEN "parse" ELSE "read",
                          AsyncReaderError(result))]
  /\ UNCHANGED <<calls, script>>

\* A cancelled coroutine is dropped without a call of its handleError.
OnCoroutineCancelDrop(w, connectionHandle) == w

\* Cancellation of a suspended coroutine is delivered to it as an error,
\* through handleError.
OnCoroutineCancel(w, connectionHandle) == handleError(w, connectionHandle)

Cancelled == "CANCELLED"

\* The scheduler cancels the task while it is suspended in send, flush or
\* header read.
Async_cancel(t) ==
  /\ task[t].mode = "async"
  /\ task[t].pc \in {"sending", "flushing", "reading"}
  /\ task' = [task EXCEPT ![t] = Fail(@, "cancel", Cancelled)]
  /\ Commit(OnCoroutineCancel(Now, task[t].h))
  /\ UNCHANGED <<calls, script>>

(* ------------------------------------------------------------------ *)
(* Specification                                                       *)
(* ------------------------------------------------------------------ *)

NoScript == [ none |-> TRUE ]

Init ==
  /\ handle = [h \in Handles |-> NoHandleObject]
  /\ provider = [h \in Handles |-> 0]
  /\ task = [t \in Tasks |-> IdleTask]
  /\ calls = 0
  /\ script = NoScript

HandleArgs == Handles \cup {NoHandle}

\* The caller of the sequential runs: one invocation after the other.
Caller == "t1"

Next ==
  \/ \E h \in Handles, c \in BOOLEAN : GetConnection(h, c)
  \/ \E h \in Handles, ev \in {"error", "connection"}, c \in BOOLEAN :
        GetConnectionAsync(h, ev, c)
  \/ \E h \in Handles : Invalidate(h)
  \/ \E h \in HandleArgs : InvalidateConnection(h)
  \/ \E h \in Handles : Destroy(h)
  \/ Consume(Caller)
  \/ ReadBody(Caller)
  \/ \E h \in HandleArgs, hd \in CallerHeaderSets : ExecuteOnce_Begin(Caller, h, hd)
  \/ \E r \in IOResults, m \in SyncFailureModes : ExecuteOnce_Send(Caller, r, m)
  \/ \E r \in IOResults, m \in SyncFailureModes : ExecuteOnce_Flush(Caller, r, m)
  \/ \E r \in HeaderResults : ExecuteOnce_ReadHeaders(Caller, r)
  \/ \E h \in HandleArgs, hd \in CallerHeaderSets : Async_act(Caller, h, hd)
  \/ \E r \in IOResults : Async_sendDone(Caller, r)
  \/ \E r \in IOResults : Async_flushDone(Caller, r)
  \/ Async_readResponse(Caller)
  \/ \E r \in HeaderResults, ev \in {"result", "error"} :
        Async_headersDone(Caller, r, ev)
  \/ Async_cancel(Caller)

Spec == Init /\ [][Next]_vars

(* ------------------------------------------------------------------ *)
(* Paired runs: executeOnce on h1 and executeOnceAsync on h2, from the  *)
(* same handle state, with the same request and the same I/O outcomes. *)
(* ------------------------------------------------------------------ *)

SyncTask == "t1"
AsyncTask == "t2"

\* Handle states an invocation can find: a fresh handle, a handle around a
\* null stream, a handle marked by an earlier "close" response, a handle
\* invalidated earlier.
PairHandleStates ==
  { HttpConnectionHandle(TRUE),
    HttpConnectionHandle(FALSE),
    [HttpConnectionHandle(TRUE) EXCEPT !.invalidateOnDestroy = TRUE],
    [HttpConnectionHandle(TRUE) EXCEPT !.valid = FALSE] }

Scripts ==
  [ nullHandle : BOOLEAN, headers : CallerHeaderSets,
    send : IOResults, flush : IOResults, read : HeaderResults ]

InitPair ==
  /\ script \in Scripts
  /\ \E hs \in PairHandleStates :
        /\ handle = [h \in Handles |-> hs]
        /\ provider = [h \in Handles |-> IF hs.valid THEN 0 ELSE 1]
  /\ task = [t \in Tasks |-> IdleTask]
  /\ calls = 0

PairArg(h) == IF script.nullHandle THEN NoHandle ELSE h

NextPair ==
  \/ ExecuteOnce_Begin(SyncTask, PairArg("h1"), script.headers)
  \/ \E m \in SyncFailureModes : ExecuteOnce_Send(SyncTask, script.send, m)
  \/ \E m \in SyncFailureModes : ExecuteOnce_Flush(SyncTask, script.flush, m)
  \/ ExecuteOnce_ReadHeaders(SyncTask, script.read)
  \/ Async_act(AsyncTask, PairArg("h2"), script.headers)
  \/ Async_sendDone(AsyncTask, script.send)
  \/ Async_flushDone(AsyncTask, script.flush)
  \/ Async_readResponse(AsyncTask)
  \/ \E ev \in {"result", "error"} : Async_headersDone(AsyncTask, script.read, ev)

SpecPair == InitPair /\ [][NextPair]_vars

(* ------------------------------------------------------------------ *)
(* Concurrent runs: two executeOnceAsync coroutines of one executor,    *)
(* each on its own handle, every interleaving of their steps.           *)
(* ------------------------------------------------------------------ *)

\* The handle each coroutine was started with.
ConcHandle(t) == IF t = "t1" THEN "h1" ELSE "h2"

\* Results the header reader of a concurrent run delivers.
ConcReads ==
  { r \in HeaderResults :
      r \in ParsedResults => /\ r.bufferPosEnd = r.bufferPosStart
                             /\ r.headers = << <<S_connection, S_CLOSE>> >> }
    \ {IOErrorResult}

\* Per coroutine: the state of its handle at the start and the outcome of
\* each of its I/O operations.
ConcScripts ==
  { sc \in [ hs : PairHandleStates, send : IOResults, flush : IOResults,
             read : ConcReads, ev : {"result", "error"} ] :
      sc.ev \in AsyncReadEvents(sc.read) }

InitConc ==
  /\ script \in [Tasks -> ConcScripts]
  /\ handle = [h \in Handles |-> script[CHOOSE t \in Tasks : ConcHandle(t) = h].hs]
  /\ provider = [h \in Handles |-> IF handle[h].valid THEN 0 ELSE 1]
  /\ task = [t \in Tasks |-> IdleTask]
  /\ calls = 0

NextConc ==
  \E t \in Tasks :
    \/ Async_act(t, ConcHandle(t), <<>>)
    \/ Async_sendDone(t, script[t].send)
    \/ Async_flushDone(t, script[t].flush)
    \/ Async_readResponse(t)
    \/ Async_headersDone(t, script[t].read, script[t].ev)

SpecConc == InitConc /\ [][NextConc]_vars

\* The steps of a started coroutine: the completion of the I/O operation it
\* is suspended in, or its next action.
CoroutineStep(t) ==
  \/ Async_sendDone(t, script[t].send)
  \/ Async_flushDone(t, script[t].flush)
  \/ Async_readResponse(t)
  \/ Async_headersDone(t, script[t].read, script[t].ev)

\* Every started I/O operation completes and the scheduler runs every
\* coroutine that can run.
SpecLive == InitConc /\ [][NextConc]_vars /\ \A t \in Tasks : WF_vars(CoroutineStep(t))

(* ------------------------------------------------------------------ *)
(* Properties                                                          *)
(* ------------------------------------------------------------------ *)

Created(h) == handle[h].state \in {"alive", "destroyed"}

Done(t) == task[t].pc = "done"

\* Spellings of "close" that differ only in letter case.
CloseSpellings == {S_close, S_Close, S_CLOSE}

\* The response's Connection value is "close" in some letter case.
SaysClose(r) == getAsMemoryLabel(r.headers, S_Connection) \in CloseSpellings

\* Invocation t takes a step that ends it.
Completes(t) == task[t].pc # "done" /\ task'[t].pc = "done"

\* C1: for every handle the provider's invalidate is called at most once,
\* and in every reachable state the handle is invalid exactly when the
\* provider has been notified exactly once for it.
C1_InvalidateOnce ==
  \A h \in Handles :
    /\ provider[h] <= 1
    /\ Created(h) => (handle[h].valid = FALSE <=> provider[h] = 1)

\* C1 witness: a handle marked by a "close" response was invalidated by a
\* failing exchange and then destroyed, so invalidate ran twice on it.
C1_Witness ==
  \E h \in Handles :
    /\ handle[h].state = "destroyed"
    /\ handle[h].invalidateOnDestroy
    /\ Done(Caller) /\ task[Caller].h = h
    /\ task[Caller].outcome = "failure"
    /\ task[Caller].failedStep \in {"parse", "read"}
    /\ provider[h] = 1

\* C2: when an exchange in either mode ends with a response whose
\* Connection header is "close" in any letter case, the handle is marked
\* invalidate-on-destroy as the response is returned, and the destruction
\* of a marked handle leaves the provider notified exactly once for it (by
\* that destruction when the handle was still valid).
C2_CloseMarksHandle ==
  [][ /\ \A t \in Tasks :
           (Completes(t) /\ task'[t].outcome = "response" /\ SaysClose(task'[t].response))
             => handle'[task'[t].h].invalidateOnDestroy
      /\ \A h \in Handles :
           (handle[h].state = "alive" /\ handle'[h].state = "destroyed"
              /\ handle[h].invalidateOnDestroy)
             => /\ provider'[h] = 1
                /\ handle[h].valid => provider'[h] = provider[h] + 1
    ]_vars

\* C2 witness: an asynchronous exchange returned a response with
\* "connection: CLOSE" and the handle was destroyed afterwards.
C2_Witness ==
  \E h \in Handles :
    /\ Done(Caller) /\ task[Caller].h = h /\ task[Caller].mode = "async"
    /\ task[Caller].outcome = "response"
    /\ getAsMemoryLabel(task[Caller].response.headers, S_Connection) = S_CLOSE
    /\ handle[h].state = "destroyed"
    /\ provider[h] = 1

\* C3: whenever the header reader reports a parse error, the invocation
\* (blocking or asynchronous) fails with CANT_PARSE_STARTING_LINE and the
\* handle is invalid with the provider notified.
C3_MalformedFails ==
  \A t \in Tasks :
    (Done(t) /\ task[t].result = MalformedResult)
      => /\ task[t].outcome = "failure"
         /\ task[t].error = ERROR_CODE_CANT_PARSE_STARTING_LINE
         /\ ~handle[task[t].h].valid
         /\ provider[task[t].h] = 1

\* C4: an invocation whose handle yields no connection (a null handle, or a
\* handle around a null connection) fails with CANT_CONNECT and makes no
\* call of the provider's invalidate.
C4_NoConnection ==
  [][ \A t \in Tasks :
        ( /\ task[t].pc = "idle" /\ task'[t].pc # "idle"
          /\ \/ task'[t].h = NoHandle
             \/ ~handle[task'[t].h].connection )
          => /\ task'[t].pc = "done"
             /\ task'[t].outcome = "failure"
             /\ task'[t].error = ERROR_CODE_CANT_CONNECT
             /\ provider' = provider
    ]_vars

\* C5: when the header read of executeOnce reports an I/O failure (the peer
\* closed the socket, negative ioStatus), the call fails with
\* CANT_PARSE_STARTING_LINE and the handle is invalid, the provider
\* notified once, in the state in which the failure reaches the caller.
C5_ReadFailureSync ==
  [][ \A t \in Tasks :
        ( /\ task[t].mode = "sync" /\ Completes(t)
          /\ task'[t].result # NoResult
          /\ task'[t].result.errorStatusCode = 0
          /\ task'[t].result.ioStatus < 0 )
          => /\ task'[t].outcome = "failure"
             /\ task'[t].error = ERROR_CODE_CANT_PARSE_STARTING_LINE
             /\ ~handle'[task'[t].h].valid
             /\ provider'[task'[t].h] = 1
    ]_vars

\* C5 witness: a blocking call on a handle that was valid ended on a
\* failed header read.
C5_Witness ==
  /\ Done(Caller) /\ task[Caller].mode = "sync"
  /\ task[Caller].result = IOErrorResult
  /\ task[Caller].outcome = "failure"
  /\ task[Caller].failedStep = "read"
  /\ ~handle[task[Caller].h].valid

\* C6: every invocation in which a step failed (connect, send, flush,
\* header read, header parse) ends in a failure, with the handle invalid
\* when it wraps a connection and with the handle and the provider
\* untouched when no connection was obtained.
C6_FailurePropagates ==
  [][ \A t \in Tasks :
        (Completes(t) /\ task'[t].failedStep # "none")
          => /\ task'[t].outcome = "failure"
             /\ (task'[t].h # NoHandle /\ handle[task'[t].h].connection)
                  => ~handle'[task'[t].h].valid
             /\ (task'[t].h = NoHandle \/ ~handle[task'[t].h].connection)
                  => (handle' = handle /\ provider' = provider)
    ]_vars

\* C7: executeOnce and executeOnceAsync, run from the same handle state
\* with the same request and the same I/O outcomes, end in the same
\* outcome, the same handle flags and the same number of provider
\* invalidate calls.
C7_SameOutcome ==
  (Done(SyncTask) /\ Done(AsyncTask))
    => /\ task[SyncTask].outcome = task[AsyncTask].outcome
       /\ task[SyncTask].error = task[AsyncTask].error
       /\ task[SyncTask].response = task[AsyncTask].response
       /\ handle["h1"].valid = handle["h2"].valid
       /\ handle["h1"].invalidateOnDestroy = handle["h2"].invalidateOnDestroy
       /\ provider["h1"] = provider["h2"]

\* C8: a step of an invocation that neither fails nor returns a response
\* saying "close" leaves every handle's valid and invalidate-on-destroy
\* flags and the provider's invalidate calls as they were; and destroying
\* a handle that is not marked does not notify the provider.
C8_KeepAliveFrame ==
  [][ /\ \A t \in Tasks :
           ( /\ task'[t] # task[t]
             /\ task'[t].outcome # "failure"
             /\ ~(task'[t].outcome = "response" /\ SaysClose(task'[t].response)) )
             => /\ provider' = provider
                /\ \A h \in Handles :
                     /\ handle'[h].valid = handle[h].valid
                     /\ handle'[h].invalidateOnDestroy = handle[h].invalidateOnDestroy
      /\ \A h \in Handles :
           (handle[h].state = "alive" /\ handle'[h].state = "destroyed"
              /\ ~handle[h].invalidateOnDestroy)
             => provider' = provider
    ]_vars

\* C8 witness: a blocking exchange on a fresh handle returned a response
\* with "Connection: closed"; the handle, still valid and unmarked, was
\* destroyed and the provider was not notified.
C8_Witness ==
  \E h \in Handles :
    /\ Done(Caller) /\ task[Caller].h = h /\ task[Caller].mode = "sync"
    /\ task[Caller].outcome = "response"
    /\ getAsMemoryLabel(task[Caller].response.headers, S_Connection) = S_closed
    /\ handle[h].state = "destroyed"
    /\ handle[h].valid /\ ~handle[h].invalidateOnDestroy
    /\ provider[h] = 0

\* C9: in every invocation the send, the flush, the header read and the
\* framing each complete at most once, and a finished invocation has
\* produced exactly one of a response and a failure, exactly once.
C9_ExactlyOneOutcome ==
  \A t \in Tasks :
    /\ task[t].nSend <= 1 /\ task[t].nFlush <= 1
    /\ task[t].nRead <= 1 /\ task[t].nFrame <= 1
    /\ task[t].nResponse + task[t].nFailure <= 1
    /\ Done(t) <=> (task[t].nResponse + task[t].nFailure = 1)
    /\ task[t].nResponse = 1 <=> task[t].outcome = "response"
    /\ task[t].nFailure = 1 <=> task[t].outcome = "failure"
    /\ task[t].nFlush <= task[t].nSend
    /\ task[t].nRead <= task[t].nFlush
    /\ task[t].nFrame <= task[t].nRead

\* C9 witness: an asynchronous invocation failed after its send and its
\* flush were done.
C9_Witness ==
  /\ Done(Caller) /\ task[Caller].mode = "async"
  /\ task[Caller].nSend = 1 /\ task[Caller].nFlush = 1 /\ task[Caller].nRead = 1
  /\ task[Caller].nFailure = 1 /\ task[Caller].nResponse = 0

\* C10: in both modes the outgoing header map keeps every caller header
\* unchanged, holds one Host and one Connection entry, and the Host value
\* is the provider's "host" property and the Connection value keep-alive
\* exactly when the caller supplied none.
C10_HeaderDefaults ==
  \A t \in Tasks :
    Running(t) =>
      LET c == task[t].caller
          r == task[t].request
      IN  /\ Len(r) >= Len(c)
          /\ \A i \in 1..Len(c) : r[i] = c[i]
          /\ countKey(r, S_Host) = 1
          /\ countKey(r, S_Connection) = 1
          /\ hasKey(c, S_Host) \/ getAsMemoryLabel(r, S_Host) = ProviderHost
          /\ hasKey(c, S_Connection) \/ getAsMemoryLabel(r, S_Connection) = S_keep_alive

\* C10 witness: an asynchronous invocation whose caller set "host" and
\* "Connection" is sending a request that carries the caller's values.
C10_Witness ==
  /\ Running(Caller) /\ task[Caller].mode = "async"
  /\ hasKey(task[Caller].caller, S_Host)
  /\ getAsMemoryLabel(task[Caller].request, S_Host) = S_example
  /\ getAsMemoryLabel(task[Caller].request, S_Connection) = S_close

\* The parsed response of a finished invocation left N bytes in the buffer.
Carried(t) == task[t].result.bufferPosEnd - task[t].result.bufferPosStart

\* C11: after a successful header read that left N = bufferPosEnd -
\* bufferPosStart bytes in the read-ahead buffer, the body stream yields
\* those N bytes first, in order and without a read on the connection, and
\* only then the bytes read from the connection; with N = 0 every byte
\* comes from the connection.
C11_BufferedBytesFirst ==
  \A t \in Tasks :
    (Done(t) /\ task[t].outcome = "response" /\ task[t].result \in ParsedResults)
      => /\ \A k \in 1..Len(task[t].body) :
              task[t].body[k] = task[t].result.bufferPosStart + (k - 1)
         /\ task[t].connReads =
              IF Len(task[t].body) > Carried(t) THEN Len(task[t].body) - Carried(t) ELSE 0

\* C11 witness: a response that carried one buffered byte was read past it:
\* the first byte came from the buffer, the next one from the connection.
C11_Witness ==
  /\ Done(Caller) /\ task[Caller].outcome = "response"
  /\ task[Caller].result \in ParsedResults
  /\ Carried(Caller) >= 1
  /\ Len(task[Caller].body) = Carried(Caller) + 1
  /\ task[Caller].connReads = 1

\* C12: an executeOnceAsync invocation that fails in any state (Start,
\* Sending, flush, ReadingHeaders) ends through handleError: in the state
\* in which the failure is visible to the task's caller the handle is
\* invalid and the provider has been notified for it.
C12_AsyncFailureInvalidates ==
  [][ \A t \in Tasks :
        ( /\ Completes(t) /\ task'[t].mode = "async"
          /\ task'[t].outcome = "failure"
          /\ task'[t].h # NoHandle )
          => /\ ~handle'[task'[t].h].valid
             /\ provider'[task'[t].h] = 1
    ]_vars

\* C12 witness: an asynchronous invocation on a handle bound to a
\* connection failed in its flush and the handle is invalid.
C12_Witness ==
  /\ Done(Caller) /\ task[Caller].mode = "async"
  /\ task[Caller].outcome = "failure" /\ task[Caller].failedStep = "flush"
  /\ task[Caller].h # NoHandle
  /\ handle[task[Caller].h].connection
  /\ ~handle[task[Caller].h].valid
  /\ provider[task[Caller].h] = 1

\* C13: in both modes, whenever the header read is about to start, the
\* send and the flush have completed without failure and the buffer shared
\* by the output proxy and the header reader holds no unflushed request
\* bytes.
C13_SendBeforeRead ==
  \A t \in Tasks :
    task[t].pc = "reading"
      => /\ task[t].nSend = 1 /\ task[t].nFlush = 1
         /\ task[t].failedStep = "none"
         /\ ~task[t].unflushed

\* C14: no step of an executeOnceAsync invocation other than a failing one
\* changes a handle's valid flag or calls the provider's invalidate, and
\* the invalidate-on-destroy flag is only ever set by the step that yields
\* the response; so the valid flag is unchanged when a response is yielded.
C14_OnlyFailedInvalidates ==
  [][ \A t \in Tasks :
        ( /\ task'[t] # task[t]
          /\ task'[t].mode = "async"
          /\ task'[t].outcome # "failure" )
          => /\ provider' = provider
             /\ \A h \in Handles :
                  /\ handle'[h].valid = handle[h].valid
                  /\ handle'[h].invalidateOnDestroy # handle[h].invalidateOnDestroy
                       => /\ Completes(t) /\ task'[t].outcome = "response"
                          /\ handle'[h].invalidateOnDestroy
    ]_vars

\* C14 witness: an asynchronous exchange yielded a response saying "close"
\* on a handle that is still valid, marked, with the provider not notified.
C14_Witness ==
  /\ Done(Caller) /\ task[Caller].mode = "async"
  /\ task[Caller].outcome = "response" /\ SaysClose(task[Caller].response)
  /\ handle[task[Caller].h].state = "alive"
  /\ handle[task[Caller].h].valid
  /\ handle[task[Caller].h].invalidateOnDestroy
  /\ provider[task[Caller].h] = 0

AloneOutcome(sc) ==
  LET fails == \/ ~sc.hs.connection
               \/ sc.send = "error"
               \/ sc.flush = "error"
               \/ sc.ev = "error"
  IN  [ outcome |-> IF fails THEN "failure" ELSE "response",
        valid |-> IF fails THEN FALSE ELSE sc.hs.valid,
        invalidateOnDestroy |->
          IF fails THEN sc.hs.invalidateOnDestroy
          ELSE sc.hs.invalidateOnDestroy \/ SaysClose(sc.read) ]

\* C16: in every interleaving of two executeOnceAsync coroutines on
\* distinct handles, a step of one coroutine changes neither the other
\* coroutine nor the other handle nor the provider's count for it, and a
\* finished coroutine has the outcome and handle flags of a run alone.
C16_Isolated ==
  [][ \A t \in Tasks :
        /\ task'[t] # task[t]
             => \A u \in Tasks \ {t} :
                  /\ task'[u] = task[u]
                  /\ handle'[ConcHandle(u)] = handle[ConcHandle(u)]
                  /\ provider'[ConcHandle(u)] = provider[ConcHandle(u)]
        /\ task'[t].pc = "done"
             => /\ task'[t].outcome = AloneOutcome(script[t]).outcome
                /\ handle'[ConcHandle(t)].valid = AloneOutcome(script[t]).valid
                /\ handle'[ConcHandle(t)].invalidateOnDestroy
                     = AloneOutcome(script[t]).invalidateOnDestroy
    ]_vars

\* C16 witness: one coroutine has failed and its handle is invalid while
\* the other, on a fresh handle, is still reading headers with its handle
\* valid and unmarked.
C16_Witness ==
  /\ script \in [Tasks -> ConcScripts]
  /\ Done("t1") /\ task["t1"].outcome = "failure" /\ task["t1"].failedStep = "flush"
  /\ ~handle["h1"].valid /\ provider["h1"] = 1
  /\ task["t2"].pc = "reading"
  /\ handle["h2"].valid /\ ~handle["h2"].invalidateOnDestroy /\ provider["h2"] = 0

\* C17: executeOnce ends with a response only when the header reader
\* reported no parse error and a positive I/O status; a read that ends with
\* I/O status 0 and no parse error ends in a failure with the handle not
\* valid.
C17_PositiveStatusOnly ==
  [][ \A t \in Tasks :
        ( /\ Completes(t) /\ task'[t].mode = "sync"
          /\ task'[t].result # NoResult )
          => /\ task'[t].outcome = "response"
                  => /\ task'[t].result.errorStatusCode = 0
                     /\ task'[t].result.ioStatus > 0
             /\ task'[t].result = ZeroReadResult
                  => /\ task'[t].outcome = "failure"
                     /\ ~handle'[task'[t].h].valid
    ]_vars

\* C18: every handle created by getConnection or getConnectionAsync wraps a
\* non-null connection, and the provider is notified of an invalidation
\* only for a handle with a non-null connection.
C18_NonNullConnection ==
  \A h \in Handles :
    /\ Created(h) => handle[h].connection
    /\ provider[h] > 0 => handle[h].connection

\* C19: an invocation of executeOnce or executeOnceAsync started with a
\* handle whose valid flag is false ends at once in a failure, without
\* switching the stream's I/O mode and without starting a send.
C19_NoIOOnInvalidated ==
  [][ \A t \in Tasks :
        ( /\ task[t].pc = "idle" /\ task'[t].pc # "idle"
          /\ task'[t].h # NoHandle
          /\ ~handle[task'[t].h].valid )
          => /\ task'[t].pc = "done"
             /\ task'[t].outcome = "failure"
             /\ handle'[task'[t].h].ioMode = handle[task'[t].h].ioMode
    ]_vars

\* C20: when every started I/O operation completes and the scheduler is
\* fair, an executeOnceAsync coroutine that is suspended in send, flush or
\* header read, or waiting to run readResponse, eventually ends: it has
\* yielded a response or propagated an error.
C20_Terminates ==
  \A t \in Tasks :
    (task[t].mode = "async" /\ Running(t))
      ~> (Done(t) /\ task[t].outcome \in {"response", "failure"})

\* C20 witness: one coroutine went through send, flush and header read and
\* ended with a response while the other ended with a failure.
C20_Witness ==
  /\ script \in [Tasks -> ConcScripts]
  /\ Done("t1") /\ task["t1"].mode = "async" /\ task["t1"].outcome = "response"
  /\ task["t1"].nSend = 1 /\ task["t1"].nFlush = 1 /\ task["t1"].nRead = 1
  /\ Done("t2") /\ task["t2"].mode = "async" /\ task["t2"].outcome = "failure"
  /\ task["t2"].failedStep = "read"

====
